---- MODULE Spec2Model ----
(***************************************************************************)
(* Model of steemvote/gui/settings.py: the settings table model            *)
(* (SettingsModel) over the configuration store, the five spin boxes bound *)
(* to it through a QDataWidgetMapper, and the cross-field check            *)
(* (check_conflicting_values) that enables or disables the save button.    *)
(*                                                                         *)
(* Floating point values are fixed-point integers.  A display value of a   *)
(* post-age field counts units of 1/MinUnit minute, a display value of a   *)
(* priority field units of 1/PctUnit percent; the store holds seconds in   *)
(* units of 1/SecUnit second and fractions in units of 1/FracUnit.  Every  *)
(* display unit is finer than the precision the code rounds to, so that    *)
(* rounding is observable.                                                 *)
(***************************************************************************)
EXTENDS Integers, Sequences, FiniteSets, TLC

VARIABLES config, widgets, error_label, save_enabled, lastOp

vars == <<config, widgets, error_label, save_enabled, lastOp>>

\* ---- SettingsModel column numbers ----
MIN_POST_AGE == 0
MAX_POST_AGE == 1
PRIORITY_HIGH == 2
PRIORITY_NORMAL == 3
PRIORITY_LOW == 4
TOTAL_FIELDS == 5

Columns == 0 .. (TOTAL_FIELDS - 1)

\* ---- fixed-point units ----
MinUnit == 6000
SecUnit == 10
PctUnit == 100000
FracUnit == 1000000

\* display units per store unit: minutes = seconds / 60, percent = fraction * 100
TimeScale == MinUnit \div (60 * SecUnit)
PrioScale == (100 * PctUnit) \div FracUnit

\* the five keys of the configuration store
Keys == {"min_post_age", "max_post_age", "priority_high", "priority_normal", "priority_low"}

\* an absent value (Python None) is the empty tuple, a float v is <<v>>
None == << >>
Some(v) == <<v>>

\* round(x, ndigits) and QDoubleSpinBox's rounding to its decimals: the nearest
\* multiple of prec, a tie going to the even multiple
Round(x, prec) ==
    LET q == x \div prec
        r == x % prec
    IN  IF 2 * r < prec THEN q * prec
        ELSE IF 2 * r > prec THEN (q + 1) * prec
        ELSE IF q % 2 = 0 THEN q * prec ELSE (q + 1) * prec

\* ---- the input domains ----
\* post-age display values (1/MinUnit minute): 0.05, 4.996, 1000.004 minutes
TimeValues == {300, 29976, 6000024}
\* priority display values (1/PctUnit percent): 0.99996, 49.99996, 150 percent
PrioValues == {99996, 4999996, 15000000}
\* initial contents of the store: 3 s, 300 s, 60000 s and 0.01, 0.5, 1.5
InitSeconds == {30, 3000, 600000}
InitDecimals == {10000, 500000, 1500000}

\* the largest column a valid index handed to setData names
MaxColumn == 5

\* a QModelIndex: the invalid index has column -1; a valid index of another
\* model may name a column past the five fields
Indexes ==
    {[valid |-> FALSE, column |-> -1]}
        \cup {[valid |-> TRUE, column |-> c] : c \in 0 .. MaxColumn}

IsTime(c) == c \in {MIN_POST_AGE, MAX_POST_AGE}
ValuesOf(c) == IF IsTime(c) THEN TimeValues ELSE PrioValues

\* ---- the external configuration store (steemvote.config) ----
get_seconds(cfg, key) == cfg[key]

get_decimal(cfg, key) == cfg[key]

\* set(key, text): a text "<n> minutes" is kept as n * 60 seconds, a text "<n>%"
\* as the fraction n / 100
config_set(cfg, key, text) ==
    IF text.suffix = " minutes"
    THEN [cfg EXCEPT ![key] = text.num \div TimeScale]
    ELSE [cfg EXCEPT ![key] = text.num \div PrioScale]

\* ---- SettingsModel ----
data(cfg, c) ==
    IF c = MIN_POST_AGE THEN Some(get_seconds(cfg, "min_post_age") * TimeScale)
    ELSE IF c = MAX_POST_AGE THEN Some(get_seconds(cfg, "max_post_age") * TimeScale)
    ELSE IF c = PRIORITY_HIGH THEN Some(get_decimal(cfg, "priority_high") * PrioScale)
    ELSE IF c = PRIORITY_NORMAL THEN Some(get_decimal(cfg, "priority_normal") * PrioScale)
    ELSE IF c = PRIORITY_LOW THEN Some(get_decimal(cfg, "priority_low") * PrioScale)
    ELSE None

\* the precision of round(value, 2) and of round(value, 4)
TimePrec == MinUnit \div 100
PrioPrec == PctUnit \div 10000

\* a setData that cuts the value off at two decimals
minutes_text_truncated(value) ==
    [num |-> (value \div TimePrec) * TimePrec, suffix |-> " minutes"]

\* a setData that keeps a priority inside the editor's range
percent_text_clamped(value) ==
    LET r == Round(value, PrioPrec)
    IN  [num |-> IF r > 100 * PctUnit THEN 100 * PctUnit
                 ELSE IF r < PctUnit THEN PctUnit ELSE r,
         suffix |-> "%"]

\* str(round(value, 2)) + ' minutes' and str(round(value, 4)) + '%'
minutes_text(value) == [num |-> Round(value, TimePrec), suffix |-> " minutes"]

percent_text(value) == [num |-> Round(value, PrioPrec), suffix |-> "%"]

\* the branch of MAX_POST_AGE writing the key of MIN_POST_AGE
KeyOf_copied(c) ==
    IF c = MIN_POST_AGE THEN "min_post_age"
    ELSE IF c = MAX_POST_AGE THEN "min_post_age"
    ELSE IF c = PRIORITY_HIGH THEN "priority_high"
    ELSE IF c = PRIORITY_NORMAL THEN "priority_normal"
    ELSE "priority_low"

\* the store key a column is written to
KeyOf(c) ==
    IF c = MIN_POST_AGE THEN "min_post_age"
    ELSE IF c = MAX_POST_AGE THEN "max_post_age"
    ELSE IF c = PRIORITY_HIGH THEN "priority_high"
    ELSE IF c = PRIORITY_NORMAL THEN "priority_normal"
    ELSE "priority_low"

\* a setData whose last branch does not return False
setData_no_else(cfg, valid, c, value) ==
    IF ~valid THEN [ret |-> FALSE, config |-> cfg, emitted |-> FALSE]
    ELSE IF value = None THEN [ret |-> FALSE, config |-> cfg, emitted |-> FALSE]
    ELSE IF IsTime(c)
    THEN [ret |-> TRUE, emitted |-> TRUE,
          config |-> config_set(cfg, KeyOf(c), minutes_text(value[1]))]
    ELSE IF c \in {PRIORITY_HIGH, PRIORITY_NORMAL, PRIORITY_LOW}
    THEN [ret |-> TRUE, emitted |-> TRUE,
          config |-> config_set(cfg, KeyOf(c), percent_text(value[1]))]
    ELSE [ret |-> TRUE, config |-> cfg, emitted |-> TRUE]

\* setData(index, value): the value returned, the store afterwards and whether
\* dataChanged was emitted
setData(cfg, valid, c, value) ==
    IF ~valid THEN [ret |-> FALSE, config |-> cfg, emitted |-> FALSE]
    ELSE IF value = None THEN [ret |-> FALSE, config |-> cfg, emitted |-> FALSE]
    ELSE IF IsTime(c)
    THEN [ret |-> TRUE, emitted |-> TRUE,
          config |-> config_set(cfg, KeyOf(c), minutes_text(value[1]))]
    ELSE IF c \in {PRIORITY_HIGH, PRIORITY_NORMAL, PRIORITY_LOW}
    THEN [ret |-> TRUE, emitted |-> TRUE,
          config |-> config_set(cfg, KeyOf(c), percent_text(value[1]))]
    ELSE [ret |-> FALSE, config |-> cfg, emitted |-> FALSE]

\* ---- the spin boxes ----
\* spin boxes whose range was never set
minimum_unset(c) == 0

minimum(c) == IF IsTime(c) THEN MinUnit \div 10 ELSE PctUnit

maximum(c) == IF IsTime(c) THEN 1000 * MinUnit ELSE 100 * PctUnit

decimals(c) == IF IsTime(c) THEN MinUnit \div 100 ELSE PctUnit \div 10000

\* QDoubleSpinBox.setValue: rounded to the decimals, then bound to the range
setValue(c, v) ==
    LET r == Round(v, decimals(c))
    IN  IF r < minimum(c) THEN minimum(c)
        ELSE IF r > maximum(c) THEN maximum(c)
        ELSE r

\* the mapper fills the widget of column c from the model
populate(cfg, c) == setValue(c, data(cfg, c)[1])

\* ---- SettingsWidget ----
PostAgeReason == "Minimum post age cannot be more than maximum post age"
PriorityReason == "Priority values must be as follows: low >= normal >= high"

disable_saving(reason) == [enabled |-> FALSE, text |-> reason]

\* a post-age check that also rejects equal ages
check_strict_age(w) ==
    IF w[MIN_POST_AGE] >= w[MAX_POST_AGE]
    THEN disable_saving(PostAgeReason)
    ELSE IF ~(w[PRIORITY_LOW] >= w[PRIORITY_NORMAL] /\ w[PRIORITY_NORMAL] >= w[PRIORITY_HIGH])
    THEN disable_saving(PriorityReason)
    ELSE [enabled |-> TRUE, text |-> ""]

\* the two checks in the other order
check_priority_first(w) ==
    IF ~(w[PRIORITY_LOW] >= w[PRIORITY_NORMAL] /\ w[PRIORITY_NORMAL] >= w[PRIORITY_HIGH])
    THEN disable_saving(PriorityReason)
    ELSE IF w[MIN_POST_AGE] > w[MAX_POST_AGE]
    THEN disable_saving(PostAgeReason)
    ELSE [enabled |-> TRUE, text |-> ""]

\* a priority check that compares low with normal only
check_half_chain(w) ==
    IF w[MIN_POST_AGE] > w[MAX_POST_AGE]
    THEN disable_saving(PostAgeReason)
    ELSE IF ~(w[PRIORITY_LOW] >= w[PRIORITY_NORMAL])
    THEN disable_saving(PriorityReason)
    ELSE [enabled |-> TRUE, text |-> ""]

\* a check that never resets the label and the button before it tests
check_no_reset(w) ==
    IF w[MIN_POST_AGE] > w[MAX_POST_AGE]
    THEN disable_saving(PostAgeReason)
    ELSE IF ~(w[PRIORITY_LOW] >= w[PRIORITY_NORMAL] /\ w[PRIORITY_NORMAL] >= w[PRIORITY_HIGH])
    THEN disable_saving(PriorityReason)
    ELSE [enabled |-> save_enabled, text |-> error_label]

check_conflicting_values(w) ==
    IF w[MIN_POST_AGE] > w[MAX_POST_AGE]
    THEN disable_saving(PostAgeReason)
    ELSE IF ~(w[PRIORITY_LOW] >= w[PRIORITY_NORMAL] /\ w[PRIORITY_NORMAL] >= w[PRIORITY_HIGH])
    THEN disable_saving(PriorityReason)
    ELSE [enabled |-> TRUE, text |-> ""]

\* ---- the state after SettingsWidget.__init__ ----
Init ==
    /\ config \in [Keys -> InitSeconds \cup InitDecimals]
    /\ \A c \in Columns : config[KeyOf(c)] \in (IF IsTime(c) THEN InitSeconds ELSE InitDecimals)
    /\ widgets = [c \in Columns |-> populate(config, c)]
    /\ error_label = ""
    /\ save_enabled = TRUE
    /\ lastOp = [op |-> "init", valid |-> FALSE, col |-> -1, value |-> None,
                 ret |-> FALSE, emitted |-> FALSE, saved |-> FALSE, seen |-> widgets]

\* one call of setData with the widgets holding w: the store write, then the
\* slots of dataChanged in the order they were connected, the check first and
\* the mapper's refresh of the widget mapped to the column second
SetDataStep(op, w, valid, c, value) ==
    LET r == setData(config, valid, c, value)
        chk == check_conflicting_values(w)
    IN  /\ config' = r.config
        /\ IF r.emitted
           THEN /\ save_enabled' = chk.enabled
                /\ error_label' = chk.text
                /\ widgets' = IF c \in Columns
                              THEN [w EXCEPT ![c] = populate(r.config, c)]
                              ELSE w
           ELSE /\ widgets' = w
                /\ UNCHANGED <<save_enabled, error_label>>
        /\ lastOp' = [op |-> op, valid |-> valid, col |-> c, value |-> value,
                      ret |-> r.ret, emitted |-> r.emitted, saved |-> FALSE,
                      seen |-> w]

\* the user sets the spin box of column c to x and leaves it: the mapper
\* submits the widget's value to the model
Edit(c, x) ==
    LET v == setValue(c, x)
    IN  SetDataStep("edit", [widgets EXCEPT ![c] = v], TRUE, c, Some(v))

\* a call of SettingsModel.setData that does not come from a widget
SetDataCall(valid, c, value) ==
    SetDataStep("setData", widgets, valid, c, value)

\* the save button is clicked (a disabled button emits no click): the model
\* has the store save itself
save_settings ==
    /\ save_enabled
    /\ lastOp' = [op |-> "save", valid |-> FALSE, col |-> -1, value |-> None,
                  ret |-> FALSE, emitted |-> FALSE, saved |-> TRUE, seen |-> widgets]
    /\ UNCHANGED <<config, widgets, error_label, save_enabled>>

Next ==
    \/ \E c \in Columns : \E x \in ValuesOf(c) : Edit(c, x)
    \/ \E index \in Indexes :
         \E value \in {Some(x) : x \in ValuesOf(index.column)} \cup {None} :
           SetDataCall(index.valid, index.column, value)
    \/ save_settings

Spec == Init /\ [][Next]_vars

\* ---- the properties ----

\* the two orderings on five display values
AgesOrdered(w) == w[MIN_POST_AGE] <= w[MAX_POST_AGE]

PrioritiesOrdered(w) ==
    w[PRIORITY_LOW] >= w[PRIORITY_NORMAL] /\ w[PRIORITY_NORMAL] >= w[PRIORITY_HIGH]

\* the record of the store, in display units
StoreRecord == [c \in Columns |-> data(config, c)[1]]

\* the key and the precision the documentation gives each field
FieldKey(c) ==
    CASE c = 0 -> "min_post_age"
      [] c = 1 -> "max_post_age"
      [] c = 2 -> "priority_high"
      [] c = 3 -> "priority_normal"
      [] c = 4 -> "priority_low"

FieldPrec(c) == IF c \in {0, 1} THEN MinUnit \div 100 ELSE PctUnit \div 10000

Dist(a, b) == IF a >= b THEN a - b ELSE b - a

\* the check has run in the last operation
CheckRan == lastOp.emitted

\* C1: whenever the check has run over five values of the editors, the save
\* button is enabled and the message empty exactly when min_post_age <=
\* max_post_age and priority_low >= priority_normal >= priority_high.
C1_OkIffOrdered ==
    CheckRan =>
        ((save_enabled /\ error_label = "")
            <=> (AgesOrdered(lastOp.seen) /\ PrioritiesOrdered(lastOp.seen)))

C1_Witness ==
    /\ CheckRan
    /\ save_enabled /\ error_label = ""
    /\ lastOp.seen[MIN_POST_AGE] = lastOp.seen[MAX_POST_AGE]
    /\ lastOp.seen[PRIORITY_LOW] > lastOp.seen[PRIORITY_HIGH]

\* C2: the first failing check wins: with min_post_age > max_post_age the
\* reason is the post-age text whatever the priorities are, and the priority
\* text appears only with min_post_age <= max_post_age and the priorities out
\* of order.
C2_FirstFailingWins ==
    CheckRan =>
        /\ (~AgesOrdered(lastOp.seen) => error_label = PostAgeReason)
        /\ (error_label = PriorityReason
              => AgesOrdered(lastOp.seen) /\ ~PrioritiesOrdered(lastOp.seen))

C2_Witness ==
    /\ CheckRan
    /\ ~AgesOrdered(lastOp.seen) /\ ~PrioritiesOrdered(lastOp.seen)
    /\ error_label = PostAgeReason /\ ~save_enabled

\* C3 as stated: every record with min_post_age > max_post_age gets the
\* post-age text and every record with the priorities out of order gets the
\* priority text.
C3_Original ==
    CheckRan =>
        /\ (~AgesOrdered(lastOp.seen) => error_label = PostAgeReason)
        /\ (~PrioritiesOrdered(lastOp.seen) => error_label = PriorityReason)

\* C3 (amended): every record with min_post_age > max_post_age gets the
\* post-age text, and every record with the priorities out of order and
\* min_post_age <= max_post_age gets the priority text.
C3_ReasonPerViolation ==
    CheckRan =>
        /\ (~AgesOrdered(lastOp.seen) => error_label = PostAgeReason /\ ~save_enabled)
        /\ (~PrioritiesOrdered(lastOp.seen) /\ AgesOrdered(lastOp.seen)
              => error_label = PriorityReason /\ ~save_enabled)

C3_Witness ==
    /\ CheckRan
    /\ AgesOrdered(lastOp.seen)
    /\ lastOp.seen[PRIORITY_LOW] >= lastOp.seen[PRIORITY_NORMAL]
    /\ lastOp.seen[PRIORITY_NORMAL] < lastOp.seen[PRIORITY_HIGH]
    /\ error_label = PriorityReason

\* C4: after setData(field, v) has succeeded, data(field) is v rounded to the
\* field's precision (a multiple of 0.01 minute or of 0.0001 percent, at most
\* half of that away from v), and the store holds it in its native unit:
\* seconds = minutes * 60, fraction = percent / 100.
C4_RoundTrip ==
    lastOp.ret =>
        LET c == lastOp.col
            v == lastOp.value[1]
            r == data(config, c)[1]
        IN  /\ r % FieldPrec(c) = 0
            /\ 2 * Dist(r, v) <= FieldPrec(c)
            /\ IF c \in {0, 1}
               THEN config[FieldKey(c)] * (MinUnit \div 60) = r * SecUnit
               ELSE config[FieldKey(c)] * 100 = r * (FracUnit \div PctUnit)

C4_Witness ==
    /\ lastOp.ret
    /\ lastOp.op = "setData"
    /\ lastOp.col = MIN_POST_AGE
    /\ lastOp.value = Some(29976)
    /\ config["min_post_age"] = 3000
    /\ data(config, MIN_POST_AGE) = Some(30000)

\* C5: every edit made through an editor is written to the store, and the
\* check then runs over the five values the editors hold: afterwards the
\* save button is enabled with the message empty when they are consistent
\* (also when an earlier edit had disabled it), and disabled with the reason
\* shown when they are not.
C5_EditThenCheck ==
    [][lastOp'.op = "edit" =>
         /\ lastOp'.ret /\ lastOp'.emitted
         /\ lastOp'.seen = widgets'
         /\ data(config', lastOp'.col) = lastOp'.value
         /\ save_enabled' = (AgesOrdered(widgets') /\ PrioritiesOrdered(widgets'))
         /\ error_label' =
              (IF ~AgesOrdered(widgets') THEN PostAgeReason
               ELSE IF ~PrioritiesOrdered(widgets') THEN PriorityReason
               ELSE "")]_vars

C5_Witness ==
    /\ lastOp.op = "edit"
    /\ lastOp.col = MAX_POST_AGE
    /\ save_enabled /\ error_label = ""
    /\ lastOp.value = Some(widgets[MAX_POST_AGE])
    /\ widgets[MIN_POST_AGE] = widgets[MAX_POST_AGE]
    /\ AgesOrdered(widgets) /\ PrioritiesOrdered(widgets)

\* C6: setData changes no stored value but that of the written field's key
\* and does not have the store save itself; the store saves itself only in
\* save_settings, which changes none of the five stored values.
C6_OnlyTheStoreWrite ==
    [][/\ lastOp'.op \in {"edit", "setData"} =>
            /\ ~lastOp'.saved
            /\ \A k \in Keys :
                 config'[k] # config[k]
                     => lastOp'.col \in Columns /\ k = FieldKey(lastOp'.col)
       /\ lastOp'.saved => lastOp'.op = "save" /\ config' = config]_vars

C6_Witness ==
    /\ lastOp.op = "setData"
    /\ lastOp.ret
    /\ lastOp.col = MAX_POST_AGE
    /\ lastOp.value = Some(300)
    /\ config["max_post_age"] = 30
    /\ config["min_post_age"] = 600000

\* C7: setData with a value at a valid index of one of the five fields
\* returns True and writes the value (rounded, never bound to the range),
\* whether or not it is in the field's range and whether or not the record
\* becomes inconsistent.
C7_NoRejection ==
    (lastOp.op \in {"edit", "setData"} /\ lastOp.valid
        /\ lastOp.value # None /\ lastOp.col \in Columns) =>
        /\ lastOp.ret
        /\ 2 * Dist(data(config, lastOp.col)[1], lastOp.value[1]) <= FieldPrec(lastOp.col)

C7_Witness ==
    /\ lastOp.op = "setData"
    /\ lastOp.ret
    /\ lastOp.col = PRIORITY_HIGH
    /\ lastOp.value = Some(15000000)
    /\ config["priority_high"] = 1500000
    /\ ~PrioritiesOrdered(StoreRecord)

\* C8: whenever the save button is enabled, the record in the store has
\* min_post_age <= max_post_age and priority_low >= priority_normal >=
\* priority_high.
C8_EnabledImpliesConsistentStore ==
    save_enabled => AgesOrdered(StoreRecord) /\ PrioritiesOrdered(StoreRecord)

\* the ranges of the editors, the lower end of the post-age range excluded
InRangeOpen(c, v) ==
    IF c \in {0, 1}
    THEN v > MinUnit \div 10 /\ v <= 1000 * MinUnit
    ELSE v >= PctUnit /\ v <= 100 * PctUnit

\* the ranges of the editors, both ends included
InRangeClosed(c, v) ==
    IF c \in {0, 1}
    THEN v >= MinUnit \div 10 /\ v <= 1000 * MinUnit
    ELSE v >= PctUnit /\ v <= 100 * PctUnit

\* C9 as stated: every value an editor holds or submits is in (0.1, 1000.0]
\* minutes, 0.1 excluded, or in [1.0, 100.0] percent.
C9_Original ==
    /\ \A c \in Columns : InRangeOpen(c, widgets[c])
    /\ lastOp.op = "edit" => InRangeOpen(lastOp.col, lastOp.value[1])

\* C9 (amended): every value an editor holds or submits is in [0.1, 1000.0]
\* minutes or in [1.0, 100.0] percent, both ends included.
C9_EditorRanges ==
    /\ \A c \in Columns : InRangeClosed(c, widgets[c])
    /\ lastOp.op = "edit" => InRangeClosed(lastOp.col, lastOp.value[1])

C9_Witness ==
    /\ lastOp.op = "edit"
    /\ lastOp.col = MIN_POST_AGE
    /\ lastOp.value = Some(MinUnit \div 10)
    /\ widgets[MIN_POST_AGE] = MinUnit \div 10
    /\ widgets[MAX_POST_AGE] = 1000 * MinUnit
    /\ widgets[PRIORITY_HIGH] = PctUnit
    /\ widgets[PRIORITY_LOW] = 100 * PctUnit

\* C10: setData with an invalid index, without a value or with a column past
\* the five fields returns False, changes no stored value and emits no
\* dataChanged: the editors, the save button and the message stay as they
\* were.
C10_RejectedWriteChangesNothing ==
    [][(/\ lastOp'.op \in {"edit", "setData"}
        /\ (~lastOp'.valid \/ lastOp'.value = None \/ lastOp'.col \notin Columns)) =>
         /\ ~lastOp'.ret /\ ~lastOp'.emitted
         /\ config' = config
         /\ widgets' = widgets
         /\ save_enabled' = save_enabled
         /\ error_label' = error_label]_vars

C10_Witness ==
    /\ lastOp.op = "setData"
    /\ lastOp.valid
    /\ lastOp.col = TOTAL_FIELDS
    /\ lastOp.value # None
    /\ ~lastOp.ret /\ ~lastOp.emitted
    /\ ~save_enabled /\ error_label = PriorityReason

====
